---- MODULE Spec2Model ----
(***************************************************************************)
(* Model of the AICP Claims API (src/main.py): three FastAPI handlers      *)
(* (/health, /v1/claims/{claim_id}, /v1/claims/status/{claim_status}) on   *)
(* top of get_connection(), reading the table                              *)
(* aicp_insurance.claims_processed.                                        *)
(*                                                                         *)
(* Strings that the SQL inspects character by character (claim_status)     *)
(* are sequences of one-character strings.  Timestamps are whole days.     *)
(***************************************************************************)
EXTENDS Integers, Sequences, FiniteSets, TLC

VARIABLES
    store,       \* rows of aicp_insurance.claims_processed (never written)
    configured,  \* TRUE iff the REDSHIFT_* environment variables are set
    backend,     \* state of the warehouse met by the last request
    openConns,   \* psycopg2 connections opened by requests and not closed
    req,         \* the last request handled
    resp,        \* the response produced for it
    attempts,    \* psycopg2.connect calls made while handling it
    sleeps,      \* sleeps made between connection attempts while handling it
    query,       \* the statement it sent to the backend, with its parameters
    txn,         \* how the "with conn" block ended the transaction
    pc           \* "idle", or "responded" while the response is being sent

vars == <<store, configured, backend, openConns, req, resp, attempts, sleeps, query, txn, pc>>

----------------------------------------------------------------------------
(* Bounds of the model *)

MaxRows == 2        \* rows in the table
MaxOpenConns == 2   \* connections left open at once before a handler may run
Now == 20           \* GETDATE(), in days

(* Program constants: the Query(...) declarations of days and limit *)

DefaultDays == 7
MinDays == 1
MaxDays == 90
DefaultLimit == 50
MinLimit == 1
MaxLimit == 500

----------------------------------------------------------------------------
(* Characters and strings *)

LowerChars == <<"a","b","c","d","e","f","g","h","i","j","k","l","m",
                "n","o","p","q","r","s","t","u","v","w","x","y","z">>
UpperChars == <<"A","B","C","D","E","F","G","H","I","J","K","L","M",
                "N","O","P","Q","R","S","T","U","V","W","X","Y","Z">>
DigitChars == <<"0","1","2","3","4","5","6","7","8","9">>

Range(s) == {s[i] : i \in DOMAIN s}

UpperSet == Range(UpperChars)
LowerOrDigitSet == Range(LowerChars) \cup Range(DigitChars)

\* SQL LOWER() on one character
LowerChar(c) ==
    IF c \in UpperSet
    THEN LowerChars[CHOOSE i \in DOMAIN UpperChars : UpperChars[i] = c]
    ELSE c

\* SQL LOWER(s)
Lower(s) == [i \in DOMAIN s |-> LowerChar(s[i])]

\* the character class [^a-z0-9] of the pattern, matched case-sensitively
MatchesPattern(c) == c \notin LowerOrDigitSet

\* REGEXP_REPLACE(s, '[^a-z0-9]+', ''): every run of matching characters removed
RegexpReplace(s) == SelectSeq(s, LAMBDA c : ~MatchesPattern(c))

\* LOWER(REGEXP_REPLACE(s, '[^a-z0-9]+', '')), applied to both sides of the comparison
SqlNormalize(s) == Lower(RegexpReplace(s))

InDashReview    == <<"I","n","-","R","e","v","i","e","w">>
in_under_review == <<"i","n","_","r","e","v","i","e","w">>
INREVIEW        == <<"I","N","R","E","V","I","E","W">>
in_dash_review  == <<"i","n","-","r","e","v","i","e","w">>
InSpaceReview   == <<"I","n"," ","R","e","v","i","e","w">>
in_space_review == <<"i","n"," ","r","e","v","i","e","w">>
approved        == <<"a","p","p","r","o","v","e","d">>

----------------------------------------------------------------------------
(* The table and the requests *)

NULL == <<>>
None == <<>>

ClaimIds == {"c1", "c2"}
AbsentId == "c9"
StoredStatuses == {InSpaceReview, in_space_review, approved}
InsertedAts == {Now - 1, Now - 2, Now - 10}

\* fraud_score is NUMERIC and nullable
Row(id, st, t) ==
    [claim_id |-> id, claim_status |-> st, inserted_at |-> t,
     fraud_prediction |-> "FRAUD",
     fraud_score |-> IF t = Now - 10 THEN NULL ELSE <<"numeric", t>>,
     fraud_explanation |-> "explained"]

RowUniverse == {Row(id, st, t) : id \in ClaimIds, st \in StoredStatuses, t \in InsertedAts}

Stores == {S \in SUBSET RowUniverse : Cardinality(S) <= MaxRows}

BackendStates == {"reachable", "unreachable", "query_failing"}

RequestStatuses == {in_dash_review, InDashReview}
DaysInputs == {0, MinDays, MaxDays, MaxDays + 1}
LimitInputs == {0, MinLimit, MaxLimit, MaxLimit + 1}

NoReq == [kind |-> "none"]
NoResp == [code |-> 0]
NoQuery == [sql |-> "none"]

----------------------------------------------------------------------------
(* get_connection() *)

\* One call of get_connection(): the environment check, then one
\* psycopg2.connect(..., connect_timeout=10).  No loop, no sleep.
GetConnection(cfg, be) ==
    IF ~cfg
    THEN [conn |-> FALSE, exc |-> "Missing Redshift connection environment variables",
          attempts |-> 0, sleeps |-> 0]
    ELSE IF be = "unreachable"
    THEN [conn |-> FALSE, exc |-> "could not connect to server",
          attempts |-> 1, sleeps |-> 0]
    ELSE [conn |-> TRUE, exc |-> "none", attempts |-> 1, sleeps |-> 0]

\* cur.execute(...) raises when the backend fails the statement
ExecuteFails(be) == be = "query_failing"

\* connection.__exit__ of psycopg2: commit when the block ended normally,
\* rollback when it raised; the connection itself is not closed
ConnExit(raised) == IF raised THEN "rollback" ELSE "commit"

----------------------------------------------------------------------------
(* The SQL statements *)

SortedDesc(f) ==
    \A i, j \in DOMAIN f : i < j => f[i].inserted_at >= f[j].inserted_at

\* ORDER BY inserted_at DESC: every order the backend may produce (ties are free)
OrderByInsertedAtDesc(S) ==
    {f \in [1..Cardinality(S) -> S] : Range(f) = S /\ SortedDesc(f)}

\* LIMIT n
Limit(f, n) == SubSeq(f, 1, IF n < Len(f) THEN n ELSE Len(f))

\* ORDER BY inserted_at with the direction lost: the oldest row comes first
SelectClaim_OldestFirst(S, id) ==
    {Limit(f, 1) :
        f \in {g \in [1..Cardinality({r \in S : r.claim_id = id}) -> {r \in S : r.claim_id = id}] :
                  /\ Range(g) = {r \in S : r.claim_id = id}
                  /\ \A i, j \in DOMAIN g : i < j => g[i].inserted_at <= g[j].inserted_at}}

\* WHERE claim_id = %s ORDER BY inserted_at DESC LIMIT 1
SelectClaim(S, id) ==
    {Limit(f, 1) : f \in OrderByInsertedAtDesc({r \in S : r.claim_id = id})}

\* WHERE LOWER(REGEXP_REPLACE(claim_status, ...)) = LOWER(REGEXP_REPLACE(%s, ...))
StatusMatches(r, status) == SqlNormalize(r.claim_status) = SqlNormalize(status)

\* AND inserted_at >= DATEADD(day, -%s, GETDATE())
InWindow(r, days) == r.inserted_at >= Now - days

\* SELECT claim_id ... ORDER BY inserted_at DESC LIMIT %s
SelectIdsByStatus(S, status, days, limit) ==
    {Limit(f, limit) :
        f \in OrderByInsertedAtDesc({r \in S : StatusMatches(r, status) /\ InWindow(r, days)})}

----------------------------------------------------------------------------
(* Outcomes of a handler body *)

HTTPException(code, detail) ==
    [raised |-> TRUE, type |-> "HTTPException", status_code |-> code, detail |-> detail]
Exception(detail) ==
    [raised |-> TRUE, type |-> "Exception", detail |-> detail]
Return(body) ==
    [raised |-> FALSE, body |-> body]

\* FastAPI: a returned dict is a 200, an HTTPException its status code with
\* {"detail": ...}, any other exception the bare 500 of the server
Respond(out) ==
    IF ~out.raised THEN [code |-> 200, body |-> out.body]
    ELSE IF out.type = "HTTPException"
    THEN [code |-> out.status_code, body |-> [detail |-> out.detail]]
    ELSE [code |-> 500, body |-> [unhandled |-> out.detail]]

Run(out, c, q, t, opened) ==
    [out |-> out, attempts |-> c.attempts, sleeps |-> c.sleeps,
     query |-> q, txn |-> t, opened |-> opened]

----------------------------------------------------------------------------
(* GET /health *)

\* the try block of health(): connect, SELECT 1, fetchone
HealthTry(cfg, be) ==
    LET c == GetConnection(cfg, be)
        q == [sql |-> "SELECT 1"]
    IN  IF ~c.conn THEN Run(Exception(c.exc), c, NoQuery, "none", FALSE)
        ELSE IF ExecuteFails(be)
        THEN Run(Exception("query failed"), c, q, ConnExit(TRUE), TRUE)
        ELSE Run(Return([status |-> "ok", db |-> <<"ok">>]), c, q, ConnExit(FALSE), TRUE)

\* except Exception as e: return {"status": "ok", "db": f"error: {e}"}
HealthExcept(out) ==
    IF out.raised THEN Return([status |-> "ok", db |-> <<"error", out.detail>>]) ELSE out

HealthHandler(cfg, be) ==
    LET r == HealthTry(cfg, be) IN [r EXCEPT !.out = HealthExcept(r.out)]

----------------------------------------------------------------------------
(* GET /v1/claims/{claim_id} *)

\* float(row["fraud_score"]) if row["fraud_score"] is not None else None
FloatOrNone(x) == IF x = NULL THEN None ELSE <<"float", x[2]>>

ClaimView(row) ==
    [claim_id |-> row.claim_id,
     status |-> row.claim_status,
     ai |-> [fraud_prediction |-> row.fraud_prediction,
             fraud_score |-> FloatOrNone(row.fraud_score),
             fraud_explanation |-> row.fraud_explanation]]

\* if not row: raise HTTPException(404) else return the view
ClaimResult(rows, id) ==
    IF rows = <<>> THEN HTTPException(404, <<"not found", id>>)
    ELSE Return(ClaimView(rows[1]))

\* the try block of get_claim_status_and_ai(): every way it can end
ClaimTry(S, cfg, be, id) ==
    LET c == GetConnection(cfg, be)
        q == [sql |-> "SELECT claim", claim_id |-> id]
    IN  IF ~c.conn THEN {Run(Exception(c.exc), c, NoQuery, "none", FALSE)}
        ELSE IF ExecuteFails(be)
        THEN {Run(Exception("query failed"), c, q, ConnExit(TRUE), TRUE)}
        ELSE {Run(ClaimResult(rows, id), c, q, ConnExit(ClaimResult(rows, id).raised), TRUE) :
                rows \in SelectClaim(S, id)}

\* the handler without its "except HTTPException: raise" clause
ClaimExcept_CatchAll(out) ==
    IF ~out.raised THEN out
    ELSE HTTPException(500, <<"DB error", out.detail>>)

\* except HTTPException: raise / except Exception as e: raise HTTPException(500, ...)
ClaimExcept(out) ==
    IF ~out.raised THEN out
    ELSE IF out.type = "HTTPException" THEN out
    ELSE HTTPException(500, <<"DB error", out.detail>>)

ClaimHandler(S, cfg, be, id) ==
    {[r EXCEPT !.out = ClaimExcept(r.out)] : r \in ClaimTry(S, cfg, be, id)}

----------------------------------------------------------------------------
(* GET /v1/claims/status/{claim_status}?days=&limit= *)

\* a query parameter is <<>> when the request omits it, <<n>> when it carries n
QueryParam(p, default) == IF p = <<>> THEN default ELSE p[1]

\* Query(ge=...) with the le= bound forgotten
InRange_NoUpperBound(v, ge, le) == v >= ge

\* Query(ge=..., le=...)
InRange(v, ge, le) == v >= ge /\ v <= le

\* the parameters FastAPI accepts; anything else is answered 422 before the handler runs
ValidParams(days, limit) ==
    InRange(days, MinDays, MaxDays) /\ InRange(limit, MinLimit, MaxLimit)

\* claim_ids = [r[0] for r in rows]
ClaimIdsOf(rows) == [i \in DOMAIN rows |-> rows[i].claim_id]

ListView(status, days, limit, rows) ==
    [status |-> status, days |-> days, limit |-> limit,
     count |-> Len(ClaimIdsOf(rows)), claim_ids |-> ClaimIdsOf(rows)]

\* the try block of list_claim_ids_by_status(): every way it can end
ListTry(S, cfg, be, status, days, limit) ==
    LET c == GetConnection(cfg, be)
        q == [sql |-> "SELECT ids", status |-> status, days |-> days, limit |-> limit]
    IN  IF ~c.conn THEN {Run(Exception(c.exc), c, NoQuery, "none", FALSE)}
        ELSE IF ExecuteFails(be)
        THEN {Run(Exception("query failed"), c, q, ConnExit(TRUE), TRUE)}
        ELSE {Run(Return(ListView(status, days, limit, rows)), c, q, ConnExit(FALSE), TRUE) :
                rows \in SelectIdsByStatus(S, status, days, limit)}

\* the handler without its except clause: the failure leaves the handler as it is
ListExcept_Missing(out) == out

\* except Exception as e: raise HTTPException(500, ...)
ListExcept(out) ==
    IF ~out.raised THEN out
    ELSE HTTPException(500, <<"DB error", out.detail>>)

ListHandler(S, cfg, be, status, days, limit) ==
    {[r EXCEPT !.out = ListExcept(r.out)] : r \in ListTry(S, cfg, be, status, days, limit)}

----------------------------------------------------------------------------
(* The state machine *)

TypeOK ==
    /\ store \in Stores
    /\ configured \in BOOLEAN
    /\ backend \in BackendStates
    /\ openConns \in 0..MaxOpenConns
    /\ attempts \in 0..1
    /\ sleeps = 0
    /\ txn \in {"none", "commit", "rollback"}
    /\ pc \in {"idle", "responded"}

Init ==
    /\ store \in Stores
    /\ configured \in BOOLEAN
    /\ backend \in BackendStates
    /\ openConns = 0
    /\ req = NoReq
    /\ resp = NoResp
    /\ attempts = 0
    /\ sleeps = 0
    /\ query = NoQuery
    /\ txn = "none"
    /\ pc = "idle"

\* The handler has run as r against backend state be.  The connection it
\* opened is never closed by the code: it stays open until the interpreter
\* deallocates the connection object, at once (collected) or later (Finalize).
Finish(request, be, r, collected) ==
    /\ pc' = "responded"
    /\ req' = request
    /\ backend' = be
    /\ resp' = Respond(r.out)
    /\ attempts' = r.attempts
    /\ sleeps' = r.sleeps
    /\ query' = r.query
    /\ txn' = r.txn
    /\ openConns' = IF r.opened /\ ~collected THEN openConns + 1 ELSE openConns
    /\ UNCHANGED <<store, configured>>

Health ==
    /\ pc = "idle"
    /\ openConns < MaxOpenConns
    /\ \E be \in BackendStates, collected \in BOOLEAN :
         Finish([kind |-> "health"], be, HealthHandler(configured, be), collected)

GetClaim ==
    /\ pc = "idle"
    /\ openConns < MaxOpenConns
    /\ \E id \in ClaimIds \cup {AbsentId}, be \in BackendStates, collected \in BOOLEAN :
         \E r \in ClaimHandler(store, configured, be, id) :
            Finish([kind |-> "claim", claim_id |-> id], be, r, collected)

\* FastAPI validates days and limit before list_claim_ids_by_status is called
ListClaims ==
    /\ pc = "idle"
    /\ openConns < MaxOpenConns
    /\ \E status \in RequestStatuses,
          d \in {<<>>} \cup {<<n>> : n \in DaysInputs},
          l \in {<<>>} \cup {<<n>> : n \in LimitInputs} :
         LET days == QueryParam(d, DefaultDays)
             limit == QueryParam(l, DefaultLimit)
             request == [kind |-> "list", status |-> status, days |-> d, limit |-> l]
         IN  IF ~ValidParams(days, limit)
             THEN /\ pc' = "responded"
                  /\ req' = request
                  /\ resp' = [code |-> 422, body |-> [detail |-> <<"validation error">>]]
                  /\ attempts' = 0
                  /\ sleeps' = 0
                  /\ query' = NoQuery
                  /\ txn' = "none"
                  /\ UNCHANGED <<store, configured, backend, openConns>>
             ELSE \E be \in BackendStates, collected \in BOOLEAN :
                    \E r \in ListHandler(store, configured, be, status, days, limit) :
                       Finish(request, be, r, collected)

\* the interpreter deallocates a connection object no request refers to any
\* more, which closes its socket
Finalize ==
    /\ openConns > 0
    /\ openConns' = openConns - 1
    /\ UNCHANGED <<store, configured, backend, req, resp, attempts, sleeps, query, txn, pc>>

\* the response has been written to the client; the worker takes the next request
Send ==
    /\ pc = "responded"
    /\ pc' = "idle"
    /\ req' = NoReq
    /\ resp' = NoResp
    /\ attempts' = 0
    /\ sleeps' = 0
    /\ query' = NoQuery
    /\ txn' = "none"
    /\ UNCHANGED <<store, configured, backend, openConns>>

Next == Health \/ GetClaim \/ ListClaims \/ Send \/ Finalize

Spec == Init /\ [][Next]_vars

----------------------------------------------------------------------------
(* Vocabulary of the properties *)

\* the handler function of the last request has run (FastAPI did not reject it)
Handled ==
    /\ pc = "responded"
    /\ req.kind = "list" =>
         ValidParams(QueryParam(req.days, DefaultDays), QueryParam(req.limit, DefaultLimit))

OnQueryPath == req.kind \in {"claim", "list"}

\* the connection step or the statement failed while handling the last request
BackendFailed == ~configured \/ backend \in {"unreachable", "query_failing"}

RowsOf(id) == {r \in store : r.claim_id = id}

\* the rows of an identifier that no other row of it is newer than
LatestRowsOf(id) ==
    {r \in RowsOf(id) : \A o \in RowsOf(id) : o.inserted_at <= r.inserted_at}

\* normalization as specified: drop every character that is not an ASCII
\* letter or digit, then lowercase
IsAlnum(c) == c \in UpperSet \/ c \in LowerOrDigitSet
SpecNormalize(s) == Lower(SelectSeq(s, IsAlnum))

\* spellings of one status under the specified normalization
Spellings == {InDashReview, in_under_review, INREVIEW, in_dash_review, in_space_review,
              InSpaceReview, approved}

----------------------------------------------------------------------------
(* C1 -- GET /health *)

\* C1: whatever the backend state, handling GET /health makes no connection
\* attempt and no query, and answers 200 {ok: true}.
C1_HealthIsBackendIndependent ==
    (pc = "responded" /\ req.kind = "health") =>
        /\ attempts = 0
        /\ query.sql = "none"
        /\ resp.code = 200
        /\ DOMAIN resp.body = {"ok"}

----------------------------------------------------------------------------
(* C2 -- retry bound *)

\* C2: on the claim-query paths, when the backend refuses every connection,
\* connection acquisition makes exactly max_attempts = 3 attempts, sleeping
\* between consecutive attempts, and then fails with the last failure's detail.
C2_RetryBound ==
    (Handled /\ OnQueryPath /\ configured /\ backend = "unreachable") =>
        /\ attempts = 3
        /\ sleeps = 2
        /\ resp.code >= 500

----------------------------------------------------------------------------
(* C3 -- connections are released *)

\* C3: no connection a request acquired is still open once its response has
\* been produced: whenever a response stands, and after any sequence of
\* completed requests, the number of open connections is zero.
C3_ConnectionsReleased == openConns = 0

----------------------------------------------------------------------------
(* C4 -- failure mapping *)

\* C4: in GET /v1/claims/{claim_id} and GET /v1/claims/status/{status}, a
\* failure of the connection step (missing configuration included) or of the
\* statement yields a 5xx response carrying a detail string; never an
\* unhandled error, a 200 or a 404.
C4_FailureMapping ==
    (Handled /\ OnQueryPath /\ BackendFailed) =>
        /\ resp.code \in 500..599
        /\ DOMAIN resp.body = {"detail"}
        /\ resp.body.detail # <<>>

C4_Witness ==
    /\ Handled /\ req.kind = "list" /\ configured /\ backend = "query_failing"
    /\ resp.code = 500
    /\ txn = "rollback"

----------------------------------------------------------------------------
(* C5 -- not found *)

\* C5: for a claim_id with no stored row, when the statement executes, the
\* handler answers 404: the not-found raised inside the query block is not
\* turned into the 5xx outcome, and nothing is retried (one connection
\* attempt, no sleep).
C5_NotFound ==
    (Handled /\ req.kind = "claim" /\ ~BackendFailed /\ RowsOf(req.claim_id) = {}) =>
        /\ resp.code = 404
        /\ resp.body.detail = <<"not found", req.claim_id>>
        /\ attempts = 1
        /\ sleeps = 0

C5_Witness ==
    /\ Handled /\ req.kind = "claim" /\ ~BackendFailed
    /\ req.claim_id \in ClaimIds
    /\ store # {}
    /\ RowsOf(req.claim_id) = {}
    /\ resp.code = 404

----------------------------------------------------------------------------
(* C6 -- status normalization *)

ReqDays == QueryParam(req.days, DefaultDays)
ReqLimit == QueryParam(req.limit, DefaultLimit)

ListSucceeded == Handled /\ req.kind = "list" /\ resp.code = 200

\* C6: the normalization applied to both sides ignores case and punctuation,
\* so two spellings of one status ("In-Review", "in_review", "INREVIEW")
\* normalize alike, and the list answered for one is a list the same store,
\* days and limit answer for the other.
C6_NormalizationIsEquivalence ==
    ListSucceeded =>
        \A s \in Spellings :
            SpecNormalize(s) = SpecNormalize(req.status) =>
                /\ SqlNormalize(s) = SqlNormalize(req.status)
                /\ resp.body.claim_ids \in
                     {ClaimIdsOf(rows) : rows \in SelectIdsByStatus(store, s, ReqDays, ReqLimit)}

----------------------------------------------------------------------------
(* C7 -- most recent row of a claim *)

\* C7: for a claim_id with at least one stored row, a successful
\* GET /v1/claims/{claim_id} returns the fields of a row of that identifier
\* whose inserted_at is the maximum among the rows sharing the identifier;
\* and with the backend working the request does succeed.
C7_ReturnsLatestRow ==
    (Handled /\ req.kind = "claim" /\ RowsOf(req.claim_id) # {}) =>
        /\ ~BackendFailed => resp.code = 200
        /\ resp.code = 200 =>
             \E r \in RowsOf(req.claim_id) :
                /\ \A o \in RowsOf(req.claim_id) : o.inserted_at <= r.inserted_at
                /\ resp.body.claim_id = req.claim_id
                /\ resp.body.status = r.claim_status
                /\ resp.body.ai.fraud_prediction = r.fraud_prediction
                /\ resp.body.ai.fraud_explanation = r.fraud_explanation
                /\ resp.body.ai.fraud_score =
                     (IF r.fraud_score = NULL THEN None ELSE <<"float", r.fraud_score[2]>>)

\* two rows of the claim, the older one with another status
C7_Witness ==
    /\ Handled /\ req.kind = "claim" /\ resp.code = 200
    /\ \E r, o \in RowsOf(req.claim_id) :
          /\ o.inserted_at < r.inserted_at
          /\ o.claim_status # r.claim_status
          /\ resp.body.status = r.claim_status

----------------------------------------------------------------------------
(* C8 -- most recent row in the list *)

\* C8: a claim_id is listed only if its most recently inserted row has a
\* status that normalizes to the requested one (under the statement's own
\* normalization or the specified one).
C8_ListResolvesLatestRow ==
    ListSucceeded =>
        \A id \in Range(resp.body.claim_ids) :
            \E r \in LatestRowsOf(id) :
                \/ SqlNormalize(r.claim_status) = SqlNormalize(req.status)
                \/ SpecNormalize(r.claim_status) = SpecNormalize(req.status)

----------------------------------------------------------------------------
(* C9 -- days and limit *)

OutOfRange(p, ge, le) == p # <<>> /\ (p[1] < ge \/ p[1] > le)

\* C9: every statement sent for a list request carries days in 1..90 and
\* limit in 1..500, 7 and 50 when omitted; a request with either parameter out
\* of range is rejected (422) before any backend contact.
C9_DaysAndLimitBounded ==
    (pc = "responded" /\ req.kind = "list") =>
        /\ query.sql # "none" =>
             /\ query.days \in 1..90
             /\ query.limit \in 1..500
             /\ query.days = (IF req.days = <<>> THEN 7 ELSE req.days[1])
             /\ query.limit = (IF req.limit = <<>> THEN 50 ELSE req.limit[1])
        /\ (OutOfRange(req.days, 1, 90) \/ OutOfRange(req.limit, 1, 500)) =>
             /\ resp.code = 422
             /\ attempts = 0
             /\ query.sql = "none"

C9_Witness ==
    /\ pc = "responded" /\ req.kind = "list"
    /\ req.days = <<91>> /\ req.limit = <<>>
    /\ resp.code = 422
    /\ attempts = 0

----------------------------------------------------------------------------
(* C10 -- the list *)

\* the rows the specification has the list draw from
SpecQualifying(status, days) ==
    {r \in store : SpecNormalize(r.claim_status) = SpecNormalize(status)
                   /\ r.inserted_at >= Now - days}

\* C10: a successful list returns the claim_ids of the first `limit` rows, most
\* recent first, among the rows whose normalized status matches and that lie
\* in the window; it echoes status, days and limit; count is the length of
\* claim_ids and at most limit; a working backend always yields a success,
\* an empty list included.
C10_ListContents ==
    (Handled /\ req.kind = "list") =>
        /\ ~BackendFailed => resp.code = 200
        /\ resp.code = 200 =>
             /\ resp.body.claim_ids \in
                  {ClaimIdsOf(Limit(f, ReqLimit)) :
                      f \in OrderByInsertedAtDesc(SpecQualifying(req.status, ReqDays))}
             /\ resp.body.status = req.status
             /\ resp.body.days = ReqDays
             /\ resp.body.limit = ReqLimit
             /\ resp.body.count = Len(resp.body.claim_ids)
             /\ resp.body.count <= ReqLimit

\* The same statement with the normalization the SQL computes: this much the
\* list does deliver.
ListContentsUnderSqlNormalize ==
    (Handled /\ req.kind = "list") =>
        /\ ~BackendFailed => resp.code = 200
        /\ resp.code = 200 =>
             /\ resp.body.claim_ids \in
                  {ClaimIdsOf(Limit(f, ReqLimit)) :
                      f \in OrderByInsertedAtDesc(
                              {r \in store : /\ SqlNormalize(r.claim_status) = SqlNormalize(req.status)
                                             /\ r.inserted_at >= Now - ReqDays})}
             /\ resp.body.count = Len(resp.body.claim_ids)
             /\ resp.body.count <= ReqLimit

====
